---- MODULE Spec2Model ----
(***************************************************************************)
(* Model of backend/main.py: the job map, the shared "output" directory,   *)
(* the background worker run_multi_song_processing (one sequential unit    *)
(* per submitted job, run in the thread pool beside the HTTP handlers)     *)
(* and the two endpoints generate_audio and get_status.                    *)
(***************************************************************************)
EXTENDS Integers, Sequences, FiniteSets, TLC

VARIABLES
    jobs,              \* main.py:103  job_id -> [status, file_url]
    disk,              \* the files of the "output" directory (main.py:111-113)
    pc,                \* per job: the line the worker stands before
    parsed_data,       \* per job: main.py:129
    clip_index,        \* per job: position of the for loop of main.py:136
    downloaded_songs,  \* per job: main.py:134  song_name -> file path
    downloaded_files,  \* per job: main.py:125  list of file paths
    processed_clips,   \* per job: main.py:133  clip name -> trimmed clip
    song_url,          \* per job: main.py:144
    audio_file_path,   \* per job: main.py:142 / 147
    final_audio,       \* per job: main.py:170-172, the merged track
    cleanup_index,     \* per job: position of the for loop of main.py:185
    calls,             \* per job: the external calls made, in order
    response           \* the HTTP response produced by the step just taken

locals == <<parsed_data, clip_index, downloaded_songs, downloaded_files,
            processed_clips, song_url, audio_file_path, final_audio,
            cleanup_index>>
vars == <<jobs, disk, pc, locals, calls, response>>

-----------------------------------------------------------------------------
(* Bounds of the model *)

MaxJobs == 2      \* submissions (identifiers handed out)
MaxClips == 2     \* clips of a plan
MaxSeq == 2       \* entries of a plan's sequence
MaxTimeLen == 5   \* characters of a time string the parser may return
MaxMergeSeq == 3  \* entries of the sequence of a plan of short clips

-----------------------------------------------------------------------------
(* Values *)

\* Python's None as a file path or file_url, and as a search result
NoPath == [kind |-> "none", song |-> "", job |-> 0]
NoUrl == [video |-> ""]
EmptyDict == <<>>
NoResponse == [kind |-> "none", job_id |-> 0, status |-> "", file_url |-> NoPath]

UUIDs == 1 .. MaxJobs

Songs == {"s1", "s2"}
ClipNames == {"a", "b"}

\* the time strings, as sequences of characters
T_0_00 == <<"0", ":", "0", "0">>
T_0_01 == <<"0", ":", "0", "1">>
T_0_02 == <<"0", ":", "0", "2">>
T_0_05 == <<"0", ":", "0", "5">>
T_0_10 == <<"0", ":", "1", "0">>
T_1_30 == <<"1", ":", "3", "0">>
T_2_00 == <<"2", ":", "0", "0">>
T_abc == <<"a", "b", "c">>

Digits == <<"0", "1", "2", "3", "4", "5", "6", "7", "8", "9">>

RECURSIVE SeqsUpTo(_, _)
SeqsUpTo(S, n) ==
    IF n = 0 THEN {<<>>}
    ELSE LET shorter == SeqsUpTo(S, n - 1)
         IN  shorter \cup {Append(s, x) : s \in {t \in shorter : Len(t) = n - 1}, x \in S}

\* the characters of the time strings the codec is run on: two digits, the
\* separator and a letter
TimeChars == {"0", "5", ":", "a"}

\* every string over these characters up to the bound, and the examples of
\* the specification
TimeStrings == SeqsUpTo(TimeChars, MaxTimeLen) \cup {T_0_05, T_1_30, T_abc}

-----------------------------------------------------------------------------
(* convert_time_to_ms, main.py:24-28 *)

\* str.split(':') : the parts between the separators
RECURSIVE Split(_, _)
Split(s, sep) ==
    IF \A k \in 1 .. Len(s) : s[k] # sep THEN <<s>>
    ELSE LET p == CHOOSE k \in 1 .. Len(s) :
                      s[k] = sep /\ \A m \in 1 .. (k - 1) : s[m] # sep
         IN  <<SubSeq(s, 1, p - 1)>> \o Split(SubSeq(s, p + 1, Len(s)), sep)

DigitValue(c) == (CHOOSE d \in 1 .. 10 : Digits[d] = c) - 1
IsDigit(c) == \E d \in 1 .. 10 : Digits[d] = c

\* int(text) succeeds on a non-empty run of decimal digits
IsNumeric(text) == Len(text) > 0 /\ \A k \in 1 .. Len(text) : IsDigit(text[k])

RECURSIVE ParseInt(_)
ParseInt(text) ==
    IF Len(text) = 0 THEN 0
    ELSE 10 * ParseInt(SubSeq(text, 1, Len(text) - 1)) + DigitValue(text[Len(text)])

\* the minutes added to the seconds without the factor of sixty
convert_time_to_ms_NoSixty(time_str) ==
    LET parts == Split(time_str, ":")
    IN  IF Len(parts) < 2 \/ ~IsNumeric(parts[1]) \/ ~IsNumeric(parts[2])
        THEN [ok |-> FALSE, ms |-> 0]
        ELSE [ok |-> TRUE, ms |-> (ParseInt(parts[1]) + ParseInt(parts[2])) * 1000]

\* [ok |-> FALSE] stands for the IndexError / ValueError the function raises
convert_time_to_ms(time_str) ==
    LET parts == Split(time_str, ":")
    IN  IF Len(parts) < 2 \/ ~IsNumeric(parts[1]) \/ ~IsNumeric(parts[2])
        THEN [ok |-> FALSE, ms |-> 0]
        ELSE [ok |-> TRUE, ms |-> (ParseInt(parts[1]) * 60 + ParseInt(parts[2])) * 1000]

-----------------------------------------------------------------------------
(* Plans: what parse_prompt_with_openai may return (main.py:76-99) *)

Clip(name, song, start, end) ==
    [name |-> name, song_name |-> song, start |-> start, end |-> end]

ClipDefs ==
    { Clip("a", "s1", T_0_05, T_0_10),
      Clip("b", "s1", T_0_00, T_1_30),
      Clip("a", "s2", T_1_30, T_2_00),
      Clip("b", "s2", T_abc, T_0_10) }

\* a JSON object with both fields, one lacking "sequence", one lacking
\* "clips", and the empty object
Plans ==
    {[clips |-> c, sequence |-> s] :
        c \in SeqsUpTo(ClipDefs, MaxClips), s \in SeqsUpTo(ClipNames, MaxSeq)}
    \cup {[clips |-> c] : c \in SeqsUpTo(ClipDefs, 1)}
    \cup {[sequence |-> <<"a">>], EmptyDict}

\* the plans of the jobs that run side by side
SharedPlans ==
    { [clips |-> <<Clip("a", "s1", T_0_05, T_0_10)>>, sequence |-> <<"a">>],
      [clips |-> <<Clip("a", "s2", T_1_30, T_2_00)>>, sequence |-> <<"b", "a">>],
      [sequence |-> <<"a">>] }

\* the plans the merge is run on: clips of 0, 1, 2 and 5 seconds and one
\* whose start lies after its end
MergeClipDefs ==
    {Clip(name, "s1", T_0_00, end) : name \in ClipNames,
                                     end \in {T_0_00, T_0_01, T_0_02, T_0_05}}
    \cup {Clip(name, "s1", T_0_05, T_0_00) : name \in ClipNames}

MergePlans ==
    {[clips |-> c, sequence |-> s] :
        c \in {<<x>> : x \in MergeClipDefs}
               \cup {<<x, y>> : x \in {d \in MergeClipDefs : d.name = "a"},
                                y \in {d \in MergeClipDefs : d.name = "b"}},
        s \in SeqsUpTo(ClipNames, MaxMergeSeq)}

\* the plans the time codec is run on: one clip whose start is any time
\* string, the parser's output being unchecked (main.py:98)
CodecPlans ==
    {[clips |-> <<Clip("a", "s1", t, T_2_00)>>, sequence |-> <<"a">>] : t \in TimeStrings}

-----------------------------------------------------------------------------
(* Files of the output directory *)

\* main.py:58-68  output/<title>.mp3, the title being the one of the video
\* found for the song
SourcePath(song) == [kind |-> "source", song |-> song, job |-> 0]
\* what a failed download may leave behind: the file before transcoding
PartialPath(song) == [kind |-> "partial", song |-> song, job |-> 0]
\* main.py:174  output/<job_id>.mp3
OutputFilename(job_id) == [kind |-> "export", song |-> "", job |-> job_id]
\* main.py:178  "/" + output_filename, the same file seen through the mount
FileUrl(job_id) == OutputFilename(job_id)
\* main.py:42  the video found for a song name
VideoUrl(song) == [video |-> song]

-----------------------------------------------------------------------------
Init ==
    /\ jobs = <<>>
    /\ disk = {}
    /\ pc = [j \in UUIDs |-> "idle"]
    /\ parsed_data = [j \in UUIDs |-> EmptyDict]
    /\ clip_index = [j \in UUIDs |-> 0]
    /\ downloaded_songs = [j \in UUIDs |-> <<>>]
    /\ downloaded_files = [j \in UUIDs |-> <<>>]
    /\ processed_clips = [j \in UUIDs |-> <<>>]
    /\ song_url = [j \in UUIDs |-> NoUrl]
    /\ audio_file_path = [j \in UUIDs |-> NoPath]
    /\ final_audio = [j \in UUIDs |-> <<>>]
    /\ cleanup_index = [j \in UUIDs |-> 0]
    /\ calls = [j \in UUIDs |-> <<>>]
    /\ response = NoResponse

-----------------------------------------------------------------------------
(* Helpers of the worker *)

\* the status kept in one place for all jobs
SetStatus_Global(job_id, status) ==
    [other \in DOMAIN jobs |-> [jobs[other] EXCEPT !.status = status]]

\* main.py:128-182  jobs[job_id]["status"] = ...
SetStatus(job_id, status) == [jobs EXCEPT ![job_id].status = status]
Log(job_id, op, arg, ok) ==
    [calls EXCEPT ![job_id] = Append(@, [op |-> op, arg |-> arg, ok |-> ok])]

\* main.py:183-185  where the finally block starts
FinallyPc(files) == IF Len(files) = 0 THEN "done" ELSE "cleanup"

\* the handler also records an output reference
Except_RecordsFileUrl(job_id) ==
    /\ jobs' = [jobs EXCEPT ![job_id].status = "failed",
                            ![job_id].file_url = OutputFilename(job_id)]
    /\ pc' = [pc EXCEPT ![job_id] = FinallyPc(downloaded_files[job_id])]
    /\ cleanup_index' = [cleanup_index EXCEPT ![job_id] = 1]

\* the cleanup is not in a finally block: a failure leaves without it
Except_SkipsCleanup(job_id) ==
    /\ jobs' = SetStatus(job_id, "failed")
    /\ pc' = [pc EXCEPT ![job_id] = "done"]
    /\ cleanup_index' = [cleanup_index EXCEPT ![job_id] = 1]

\* main.py:180-182  an exception anywhere in the try block
Except(job_id) ==
    /\ jobs' = SetStatus(job_id, "failed")
    /\ pc' = [pc EXCEPT ![job_id] = FinallyPc(downloaded_files[job_id])]
    /\ cleanup_index' = [cleanup_index EXCEPT ![job_id] = 1]

CurrentClip(job_id) == parsed_data[job_id].clips[clip_index[job_id]]

\* the cache is never consulted
Cached_Never(job_id, song_name) == FALSE

\* main.py:141
Cached(job_id, song_name) == song_name \in DOMAIN downloaded_songs[job_id]

\* processed_clips[name] without the membership test: a KeyError, and so no
\* clip to merge, as soon as one name is undefined
SequenceToMerge_KeyError(names, clips) ==
    IF \E n \in 1 .. Len(names) : names[n] \notin DOMAIN clips
    THEN <<>>
    ELSE [n \in 1 .. Len(names) |-> clips[names[n]]]

\* the list built back to front
SequenceToMerge_Reversed(names, clips) ==
    LET IsDefined(name) == name \in DOMAIN clips
        named == SelectSeq(names, IsDefined)
    IN  [n \in 1 .. Len(named) |-> clips[named[Len(named) + 1 - n]]]

\* main.py:166
RECURSIVE SequenceToMerge(_, _)
SequenceToMerge(names, clips) ==
    IF names = <<>> THEN <<>>
    ELSE IF Head(names) \in DOMAIN clips
         THEN <<clips[Head(names)]>> \o SequenceToMerge(Tail(names), clips)
         ELSE SequenceToMerge(Tail(names), clips)

\* the test of main.py:186 inverted: a file that is there is left alone
RemoveFile_ExistsInverted(job_id, file_path) ==
    UNCHANGED <<disk, calls>>

\* a file that a running job has downloaded too is left to that job
RemoveFile_UnlessInUse(job_id, file_path) ==
    IF /\ file_path \in disk
       /\ \A other \in DOMAIN jobs \ {job_id} :
             \/ pc[other] = "done"
             \/ \A n \in 1 .. Len(downloaded_files[other]) :
                   downloaded_files[other][n] # file_path
    THEN \/ /\ disk' = disk \ {file_path}
            /\ calls' = Log(job_id, "remove", file_path.song, TRUE)
         \/ /\ disk' = disk
            /\ calls' = Log(job_id, "remove", file_path.song, FALSE)
    ELSE UNCHANGED <<disk, calls>>

\* main.py:186-190  the file is removed, or os.remove raises OSError and the
\* file stays, or the file is not there
RemoveFile(job_id, file_path) ==
    IF file_path \in disk
    THEN \/ /\ disk' = disk \ {file_path}
            /\ calls' = Log(job_id, "remove", file_path.song, TRUE)
         \/ /\ disk' = disk
            /\ calls' = Log(job_id, "remove", file_path.song, FALSE)
    ELSE UNCHANGED <<disk, calls>>

-----------------------------------------------------------------------------
(* generate_audio, main.py:193-199 *)

\* an identifier that may be in use: always the same one
uuid4_Fixed == CHOOSE id \in UUIDs : \A o \in UUIDs : id <= o

\* main.py:195  a fresh identifier; identifiers are opaque, so the least
\* unused one stands for it
uuid4 == CHOOSE id \in UUIDs : id \notin DOMAIN jobs /\ \A o \in UUIDs : o < id => o \in DOMAIN jobs

\* the background task is never added: main.py:197 left out
generate_audio_NoTask ==
    /\ \E id \in UUIDs : id \notin DOMAIN jobs
    /\ LET job_id == uuid4
       IN  /\ jobs' = (job_id :> [status |-> "pending", file_url |-> NoPath]) @@ jobs
           /\ response' = [NoResponse EXCEPT !.kind = "job", !.job_id = job_id]
    /\ UNCHANGED <<disk, pc, locals, calls>>

generate_audio ==
    /\ \E id \in UUIDs : id \notin DOMAIN jobs
    /\ LET job_id == uuid4
       IN  /\ jobs' = (job_id :> [status |-> "pending", file_url |-> NoPath]) @@ jobs
           /\ pc' = [pc EXCEPT ![job_id] = "start"]
           /\ response' = [NoResponse EXCEPT !.kind = "job", !.job_id = job_id]
    /\ UNCHANGED <<disk, locals, calls>>

\* jobs.get(job_id, default): an unknown identifier is answered as pending
get_status_Default(job_id) ==
    /\ response' = IF job_id \in DOMAIN jobs
                   THEN [kind |-> "status", job_id |-> job_id,
                         status |-> jobs[job_id].status,
                         file_url |-> jobs[job_id].file_url]
                   ELSE [kind |-> "status", job_id |-> job_id,
                         status |-> "pending", file_url |-> NoPath]
    /\ UNCHANGED <<jobs, disk, pc, locals, calls>>

(* get_status, main.py:201-206 *)
get_status(job_id) ==
    /\ response' = IF job_id \in DOMAIN jobs
                   THEN [kind |-> "status", job_id |-> job_id,
                         status |-> jobs[job_id].status,
                         file_url |-> jobs[job_id].file_url]
                   ELSE [NoResponse EXCEPT !.kind = "not_found", !.job_id = job_id]
    /\ UNCHANGED <<jobs, disk, pc, locals, calls>>

-----------------------------------------------------------------------------
(* run_multi_song_processing, main.py:124-190.  One action per stretch of  *)
(* code between two accesses to the job map or to the output directory.    *)

\* main.py:128
StartParsing(job_id) ==
    /\ pc[job_id] = "start"
    /\ jobs' = SetStatus(job_id, "parsing_prompt")
    /\ pc' = [pc EXCEPT ![job_id] = "parse"]
    /\ response' = NoResponse
    /\ UNCHANGED <<disk, locals, calls>>

\* main.py:129-134  the interpreter raises, or returns a JSON object
ParsePrompt(job_id, plans) ==
    /\ pc[job_id] = "parse"
    /\ response' = NoResponse
    /\ \/ /\ calls' = Log(job_id, "parse", "", FALSE)
          /\ Except(job_id)
          /\ UNCHANGED <<parsed_data, clip_index>>
       \/ \E plan \in plans :
            /\ calls' = Log(job_id, "parse", "", TRUE)
            /\ parsed_data' = [parsed_data EXCEPT ![job_id] = plan]
            /\ IF "clips" \notin DOMAIN plan
               THEN /\ Except(job_id)
                    /\ UNCHANGED clip_index
               ELSE /\ clip_index' = [clip_index EXCEPT ![job_id] = 1]
                    /\ pc' = [pc EXCEPT ![job_id] = "loop"]
                    /\ UNCHANGED <<jobs, cleanup_index>>
    /\ UNCHANGED <<disk, downloaded_songs, downloaded_files, processed_clips,
                   song_url, audio_file_path, final_audio>>

\* main.py:136-139  the next clip of the plan, or the end of the loop
NextClip(job_id) ==
    /\ pc[job_id] = "loop"
    /\ response' = NoResponse
    /\ IF clip_index[job_id] > Len(parsed_data[job_id].clips)
       THEN /\ pc' = [pc EXCEPT ![job_id] = "merge"]
            /\ UNCHANGED jobs
       ELSE /\ jobs' = SetStatus(job_id, "searching_youtube")
            /\ pc' = [pc EXCEPT ![job_id] = "lookup"]
    /\ UNCHANGED <<disk, locals, calls>>

\* main.py:141-146  the cached file, or the search (found or not found)
Lookup(job_id) ==
    /\ pc[job_id] = "lookup"
    /\ response' = NoResponse
    /\ LET song_name == CurrentClip(job_id).song_name
       IN  IF Cached(job_id, song_name)
           THEN /\ audio_file_path' = [audio_file_path EXCEPT
                                         ![job_id] = downloaded_songs[job_id][song_name]]
                /\ pc' = [pc EXCEPT ![job_id] = "process"]
                /\ UNCHANGED <<jobs, song_url, cleanup_index, calls>>
           ELSE \E found \in {VideoUrl(song_name), NoUrl} :
                  /\ calls' = Log(job_id, "search", song_name, found # NoUrl)
                  /\ IF found = NoUrl
                     THEN /\ Except(job_id)
                          /\ UNCHANGED <<song_url, audio_file_path>>
                     ELSE /\ song_url' = [song_url EXCEPT ![job_id] = found]
                          /\ jobs' = SetStatus(job_id, "downloading_audio")
                          /\ pc' = [pc EXCEPT ![job_id] = "download"]
                          /\ UNCHANGED <<audio_file_path, cleanup_index>>
    /\ UNCHANGED <<disk, parsed_data, clip_index, downloaded_songs,
                   downloaded_files, processed_clips, final_audio>>

\* main.py:147-150 with download_audio_from_youtube, main.py:55-74
Download(job_id) ==
    /\ pc[job_id] = "download"
    /\ response' = NoResponse
    /\ LET song_name == CurrentClip(job_id).song_name
           mp3_filepath == SourcePath(song_url[job_id].video)
       IN  \/ /\ disk' = disk \cup {mp3_filepath}
              /\ calls' = Log(job_id, "download", song_name, TRUE)
              /\ audio_file_path' = [audio_file_path EXCEPT ![job_id] = mp3_filepath]
              /\ downloaded_songs' = [downloaded_songs EXCEPT
                                        ![job_id] = (song_name :> mp3_filepath) @@ @]
              /\ downloaded_files' = [downloaded_files EXCEPT
                                        ![job_id] = Append(@, mp3_filepath)]
              /\ pc' = [pc EXCEPT ![job_id] = "process"]
              /\ UNCHANGED <<jobs, cleanup_index>>
           \/ /\ disk' \in {disk, disk \cup {PartialPath(song_url[job_id].video)}}
              /\ calls' = Log(job_id, "download", song_name, FALSE)
              /\ Except(job_id)
              /\ UNCHANGED <<audio_file_path, downloaded_songs, downloaded_files>>
    /\ UNCHANGED <<parsed_data, clip_index, processed_clips, song_url, final_audio>>

\* main.py:152
StartProcessing(job_id) ==
    /\ pc[job_id] = "process"
    /\ jobs' = SetStatus(job_id, "processing_audio")
    /\ pc' = [pc EXCEPT ![job_id] = "trim"]
    /\ response' = NoResponse
    /\ UNCHANGED <<disk, locals, calls>>

\* dict.setdefault: a name that is taken keeps its first clip
StoreClip_KeepFirst(clips, name, trimmed_clip) == clips @@ (name :> trimmed_clip)

\* main.py:158  processed_clips[clip_name] = trimmed_clip
StoreClip(clips, name, trimmed_clip) == (name :> trimmed_clip) @@ clips

\* main.py:154-158  from_mp3 raises when the file is gone, convert_time_to_ms
\* when a bound is malformed
Trim(job_id) ==
    /\ pc[job_id] = "trim"
    /\ response' = NoResponse
    /\ LET clip_info == CurrentClip(job_id)
           start_ms == convert_time_to_ms(clip_info.start)
           end_ms == convert_time_to_ms(clip_info.end)
           ok == /\ audio_file_path[job_id] \in disk
                 /\ start_ms.ok
                 /\ end_ms.ok
           trimmed_clip == [song |-> audio_file_path[job_id].song,
                            start_ms |-> start_ms.ms, end_ms |-> end_ms.ms]
       IN  /\ calls' = Log(job_id, "trim", clip_info.song_name, ok)
           /\ IF ok
              THEN /\ processed_clips' = [processed_clips EXCEPT
                                            ![job_id] = StoreClip(@, clip_info.name, trimmed_clip)]
                   /\ clip_index' = [clip_index EXCEPT ![job_id] = @ + 1]
                   /\ pc' = [pc EXCEPT ![job_id] = "loop"]
                   /\ UNCHANGED <<jobs, cleanup_index>>
              ELSE /\ Except(job_id)
                   /\ UNCHANGED <<processed_clips, clip_index>>
    /\ UNCHANGED <<disk, parsed_data, downloaded_songs, downloaded_files,
                   song_url, audio_file_path, final_audio>>

\* main.py:164
CROSSFADE_DURATION_MS == 1500

\* main.py:154  the length in ms of the audio that from_mp3 loads
SongLength(song) == 125 * 1000

Min(a, b) == IF a < b THEN a ELSE b

\* main.py:157  the length of sound[start_ms:end_ms]: a slice is cut down to
\* the audio that is there, and is empty when its start is not before its end
ClipLength(trimmed_clip) ==
    LET length == SongLength(trimmed_clip.song)
        start == Min(trimmed_clip.start_ms, length)
        end == Min(trimmed_clip.end_ms, length)
    IN  IF start < end THEN end - start ELSE 0

\* main.py:172  the crossfade of the audio library: the two segments overlap
\* by the duration, and the call raises when either is shorter than that
crossfade(final_length, next_length, duration) ==
    IF duration > final_length \/ duration > next_length
    THEN [ok |-> FALSE, length |-> 0]
    ELSE [ok |-> TRUE, length |-> final_length + next_length - duration]

\* main.py:171-172  the loop: each next clip faded into the track so far
RECURSIVE MergeFrom(_, _)
MergeFrom(final_audio_length, clips) ==
    IF clips = <<>> THEN [ok |-> TRUE, length |-> final_audio_length]
    ELSE LET faded == crossfade(final_audio_length, ClipLength(Head(clips)),
                                CROSSFADE_DURATION_MS)
         IN  IF faded.ok THEN MergeFrom(faded.length, Tail(clips)) ELSE faded

\* the loop run over the whole list, the first clip faded into itself
MergeAll_FromFirst(sequence_to_merge) ==
    MergeFrom(ClipLength(sequence_to_merge[1]), sequence_to_merge)

\* main.py:170-172  the first clip, then every next one faded in
MergeAll(sequence_to_merge) ==
    MergeFrom(ClipLength(sequence_to_merge[1]), Tail(sequence_to_merge))

\* main.py:161-175  the sequence (KeyError without the field), the merge, and
\* the export, which writes output/<job_id>.mp3 or raises
Merge(job_id) ==
    /\ pc[job_id] = "merge"
    /\ response' = NoResponse
    /\ LET has_sequence == "sequence" \in DOMAIN parsed_data[job_id]
           sequence_to_merge ==
               IF has_sequence
               THEN SequenceToMerge(parsed_data[job_id].sequence, processed_clips[job_id])
               ELSE <<>>
       IN  IF sequence_to_merge = <<>>
           THEN /\ Except(job_id)
                /\ UNCHANGED <<disk, final_audio, calls>>
           ELSE IF ~MergeAll(sequence_to_merge).ok
           THEN /\ calls' = Log(job_id, "crossfade", "", FALSE)
                /\ Except(job_id)
                /\ UNCHANGED <<disk, final_audio>>
           ELSE /\ final_audio' = [final_audio EXCEPT ![job_id] = sequence_to_merge]
                /\ \/ /\ disk' = disk \cup {OutputFilename(job_id)}
                      /\ calls' = Log(job_id, "export", "", TRUE)
                      /\ pc' = [pc EXCEPT ![job_id] = "complete"]
                      /\ UNCHANGED <<jobs, cleanup_index>>
                   \/ /\ calls' = Log(job_id, "export", "", FALSE)
                      /\ Except(job_id)
                      /\ UNCHANGED disk
    /\ UNCHANGED <<parsed_data, clip_index, downloaded_songs, downloaded_files,
                   processed_clips, song_url, audio_file_path>>

\* main.py:177
SetComplete(job_id) ==
    /\ pc[job_id] = "complete"
    /\ jobs' = SetStatus(job_id, "complete")
    /\ pc' = [pc EXCEPT ![job_id] = "file_url"]
    /\ response' = NoResponse
    /\ UNCHANGED <<disk, locals, calls>>

\* the entry written anew, as at submission, with the reference in it
SetFileUrl_NewEntry(job_id) ==
    /\ pc[job_id] = "file_url"
    /\ jobs' = [jobs EXCEPT ![job_id] = [status |-> "pending", file_url |-> FileUrl(job_id)]]
    /\ pc' = [pc EXCEPT ![job_id] = FinallyPc(downloaded_files[job_id])]
    /\ cleanup_index' = [cleanup_index EXCEPT ![job_id] = 1]
    /\ response' = NoResponse
    /\ UNCHANGED <<disk, parsed_data, clip_index, downloaded_songs, downloaded_files,
                   processed_clips, song_url, audio_file_path, final_audio, calls>>

\* main.py:178, then on to the finally block
SetFileUrl(job_id) ==
    /\ pc[job_id] = "file_url"
    /\ jobs' = [jobs EXCEPT ![job_id].file_url = FileUrl(job_id)]
    /\ pc' = [pc EXCEPT ![job_id] = FinallyPc(downloaded_files[job_id])]
    /\ cleanup_index' = [cleanup_index EXCEPT ![job_id] = 1]
    /\ response' = NoResponse
    /\ UNCHANGED <<disk, parsed_data, clip_index, downloaded_songs, downloaded_files,
                   processed_clips, song_url, audio_file_path, final_audio, calls>>

\* main.py:185-190  one round of the cleanup loop
Cleanup(job_id) ==
    /\ pc[job_id] = "cleanup"
    /\ response' = NoResponse
    /\ RemoveFile(job_id, downloaded_files[job_id][cleanup_index[job_id]])
    /\ cleanup_index' = [cleanup_index EXCEPT ![job_id] = @ + 1]
    /\ pc' = [pc EXCEPT ![job_id] =
                IF cleanup_index[job_id] = Len(downloaded_files[job_id])
                THEN "done" ELSE "cleanup"]
    /\ UNCHANGED <<jobs, parsed_data, clip_index, downloaded_songs, downloaded_files,
                   processed_clips, song_url, audio_file_path, final_audio>>

run_multi_song_processing(job_id, plans) ==
    \/ StartParsing(job_id)
    \/ ParsePrompt(job_id, plans)
    \/ NextClip(job_id)
    \/ Lookup(job_id)
    \/ Download(job_id)
    \/ StartProcessing(job_id)
    \/ Trim(job_id)
    \/ Merge(job_id)
    \/ SetComplete(job_id)
    \/ SetFileUrl(job_id)
    \/ Cleanup(job_id)

-----------------------------------------------------------------------------
(* The service: any number of jobs side by side, each with a short plan *)

Next ==
    \/ generate_audio
    \/ \E job_id \in UUIDs : run_multi_song_processing(job_id, SharedPlans)
    \/ \E job_id \in UUIDs : get_status(job_id)

Spec == Init /\ [][Next]_vars

(* One job, with every plan within the bounds *)

NextPlan ==
    \/ jobs = <<>> /\ generate_audio
    \/ \E job_id \in UUIDs : run_multi_song_processing(job_id, Plans)
    \/ \E job_id \in UUIDs : get_status(job_id)

SpecPlan == Init /\ [][NextPlan]_vars

(* The submissions and the workers alone, under the scheduling of the    *)
(* thread pool: every external call returns, and a worker that can take  *)
(* a step is not passed over forever.                                    *)

NextWork ==
    \/ generate_audio
    \/ \E job_id \in UUIDs : run_multi_song_processing(job_id, SharedPlans)

FairWork ==
    /\ Init /\ [][NextWork]_vars
    /\ \A job_id \in UUIDs : WF_vars(run_multi_song_processing(job_id, SharedPlans))

NextPlanWork ==
    \/ jobs = <<>> /\ generate_audio
    \/ \E job_id \in UUIDs : run_multi_song_processing(job_id, Plans)

FairPlan ==
    /\ Init /\ [][NextPlanWork]_vars
    /\ \A job_id \in UUIDs : WF_vars(run_multi_song_processing(job_id, Plans))


(* One job whose clip starts at any time string within the bound: the    *)
(* worker applies convert_time_to_ms to it at main.py:155.               *)

NextCodec ==
    \/ jobs = <<>> /\ generate_audio
    \/ \E job_id \in UUIDs : run_multi_song_processing(job_id, CodecPlans)

SpecCodec == Init /\ [][NextCodec]_vars

(* One job whose clips are of every length around the crossfade duration *)

NextMerge ==
    \/ jobs = <<>> /\ generate_audio
    \/ \E job_id \in UUIDs : run_multi_song_processing(job_id, MergePlans)

SpecMerge == Init /\ [][NextMerge]_vars

-----------------------------------------------------------------------------
(* Vocabulary of the properties *)

Terminal == {"complete", "failed"}
Range(seq) == {seq[n] : n \in 1 .. Len(seq)}
Submitted == DOMAIN jobs

\* the order of the stages in the specification's state machine
StageOrder == <<"pending", "parsing_prompt", "searching_youtube",
                "downloading_audio", "processing_audio", "complete">>
Rank(status) == CHOOSE n \in 1 .. Len(StageOrder) : StageOrder[n] = status

\* how many times a job called an external operation for a song
CallCount(job_id, op, arg) ==
    Cardinality({n \in 1 .. Len(calls[job_id]) :
                    calls[job_id][n].op = op /\ calls[job_id][n].arg = arg})

-----------------------------------------------------------------------------
\* C1: a status query that answers "complete" carries the output reference
\* /output/<job_id>.mp3 of a file whose export has finished; no answer
\* pairs status complete with a null file_url.
C1_CompleteAnswerHasFileUrl ==
    (response.kind = "status" /\ response.status = "complete")
        => /\ response.file_url = FileUrl(response.job_id)
           /\ OutputFilename(response.job_id) \in disk

\* C2: in every state a failed job has no output reference, and a job with an
\* output reference is complete.
C2_FileUrlOnlyWhenComplete ==
    \A job_id \in Submitted :
        /\ jobs[job_id].status = "failed" => jobs[job_id].file_url = NoPath
        /\ jobs[job_id].file_url # NoPath => jobs[job_id].status = "complete"

\* a job that failed in its last stage, the export, and one that completed
C2_Witness ==
    \E job_id \in Submitted :
        /\ jobs[job_id].status = "failed"
        /\ jobs[job_id].file_url = NoPath
        /\ Len(calls[job_id]) > 0
        /\ calls[job_id][Len(calls[job_id])] = [op |-> "export", arg |-> "", ok |-> FALSE]

\* C3: every change of a job's status goes to a later stage of the order
\* pending, parsing_prompt, searching_youtube, downloading_audio,
\* processing_audio, complete, or to failed; never back.
C3_StatusMovesForward ==
    [][\A job_id \in Submitted :
          jobs'[job_id].status # jobs[job_id].status
              => \/ jobs'[job_id].status = "failed"
                 \/ /\ jobs[job_id].status # "failed"
                    /\ Rank(jobs'[job_id].status) > Rank(jobs[job_id].status)]_vars

\* C4, as stated: whenever a job's status is terminal, no source file it
\* fetched is on disk.
C4_NoSourceFileWhenTerminal ==
    \A job_id \in Submitted :
        jobs[job_id].status \in Terminal
            => \A file_path \in Range(downloaded_files[job_id]) : file_path \notin disk

RemoveFailed(job_id, file_path) ==
    [op |-> "remove", arg |-> file_path.song, ok |-> FALSE] \in Range(calls[job_id])

\* C4, amended: once a job's worker has finished its cleanup loop, a source
\* file it downloaded is on disk only if its removal raised OSError or
\* another job downloaded a file of the same name.
C4_SourcesRemovedWhenWorkerDone ==
    \A job_id \in Submitted :
        pc[job_id] = "done"
            => \A file_path \in Range(downloaded_files[job_id]) :
                  file_path \in disk
                      => \/ RemoveFailed(job_id, file_path)
                         \/ \E other \in Submitted \ {job_id} :
                               file_path \in Range(downloaded_files[other])

\* a finished job whose downloaded source file has been removed
C4_Witness ==
    \E job_id \in Submitted :
        /\ pc[job_id] = "done"
        /\ jobs[job_id].status \in Terminal
        /\ downloaded_files[job_id] # <<>>
        /\ Range(downloaded_files[job_id]) \cap disk = {}
        /\ [op |-> "remove", arg |-> downloaded_files[job_id][1].song, ok |-> TRUE]
               \in Range(calls[job_id])

\* C5: a step of a job in which a stage fails (an external call fails, the
\* plan lacks the clips field, or nothing is left to merge) sets the status
\* to failed and leaves the try block for the cleanup; once failed, the job
\* makes no further search, download, trim or export, and its worker ends
\* only after every downloaded file had its round of the cleanup loop.
C5_FailureAbortsAndCleansUp ==
    [][\A job_id \in Submitted :
          LET last == calls'[job_id][Len(calls'[job_id])]
              failed_call == /\ Len(calls'[job_id]) > Len(calls[job_id])
                             /\ last.op # "remove"
                             /\ ~last.ok
              no_clips == /\ pc[job_id] = "parse"
                          /\ pc'[job_id] # "parse"
                          /\ "clips" \notin DOMAIN parsed_data'[job_id]
              nothing_to_merge ==
                  /\ pc[job_id] = "merge"
                  /\ pc'[job_id] # "merge"
                  /\ \/ "sequence" \notin DOMAIN parsed_data[job_id]
                     \/ \A n \in 1 .. Len(parsed_data[job_id].sequence) :
                           parsed_data[job_id].sequence[n]
                               \notin DOMAIN processed_clips[job_id]
          IN  /\ (failed_call \/ no_clips \/ nothing_to_merge)
                    => /\ jobs'[job_id].status = "failed"
                       /\ pc'[job_id] \in {"cleanup", "done"}
                       /\ pc'[job_id] = "done" => downloaded_files[job_id] = <<>>
                       /\ cleanup_index'[job_id] = 1
              /\ jobs[job_id].status = "failed"
                    => /\ jobs'[job_id].status = "failed"
                       /\ pc'[job_id] \in {"cleanup", "done"}
                       /\ \/ calls'[job_id] = calls[job_id]
                          \/ /\ Len(calls'[job_id]) = Len(calls[job_id]) + 1
                             /\ last.op = "remove"
                       /\ processed_clips'[job_id] = processed_clips[job_id]
                       /\ OutputFilename(job_id) \in disk'
                              => OutputFilename(job_id) \in disk
              /\ pc'[job_id] = "done"
                    => cleanup_index'[job_id] > Len(downloaded_files'[job_id])]_vars

\* a job that failed after a download, and whose cleanup removed the file
C5_Witness ==
    \E job_id \in Submitted :
        /\ jobs[job_id].status = "failed"
        /\ pc[job_id] = "done"
        /\ downloaded_files[job_id] # <<>>
        /\ Range(downloaded_files[job_id]) \cap disk = {}
        /\ ~calls[job_id][Len(calls[job_id]) - 1].ok

\* C6: within one job the resolver and the fetcher are each called at most
\* once per song name.
C6_OneFetchPerSong ==
    \A job_id \in UUIDs : \A song_name \in Songs :
        /\ CallCount(job_id, "search", song_name) <= 1
        /\ CallCount(job_id, "download", song_name) <= 1

\* a job that trimmed two clips of one song after a single download
C6_Witness ==
    \E job_id \in Submitted : \E song_name \in Songs :
        /\ CallCount(job_id, "trim", song_name) >= 2
        /\ CallCount(job_id, "download", song_name) = 1
        /\ CallCount(job_id, "search", song_name) = 1
        /\ \A n \in 1 .. Len(calls[job_id]) : calls[job_id][n].ok

\* C7: at the merge, the entries of the sequence that name no defined clip
\* are left out and the export is attempted with the others; when no entry
\* names a defined clip the job fails, no export is attempted and
\* output/<job_id>.mp3 is not written, then or later.
C7_UndefinedEntriesSkipped ==
    [][\A job_id \in Submitted :
          LET sequence == parsed_data[job_id].sequence
              defined == {n \in 1 .. Len(sequence) :
                             sequence[n] \in DOMAIN processed_clips[job_id]}
              last == calls'[job_id][Len(calls'[job_id])]
          IN  /\ ( /\ pc[job_id] = "merge"
                   /\ pc'[job_id] # "merge"
                   /\ "sequence" \in DOMAIN parsed_data[job_id] )
                    => IF defined = {}
                       THEN /\ jobs'[job_id].status = "failed"
                            /\ calls'[job_id] = calls[job_id]
                            /\ OutputFilename(job_id) \notin disk'
                       ELSE /\ Len(final_audio'[job_id]) = Cardinality(defined)
                            /\ Len(calls'[job_id]) = Len(calls[job_id]) + 1
                            /\ last.op = "export"
                            /\ last.ok => /\ pc'[job_id] = "complete"
                                          /\ jobs'[job_id].status # "failed"
                                          /\ OutputFilename(job_id) \in disk'
              /\ ( /\ jobs[job_id].status = "failed"
                   /\ \A n \in 1 .. Len(calls[job_id]) : calls[job_id][n].op # "export" )
                    => OutputFilename(job_id) \notin disk']_vars

\* a completed job whose sequence had an entry naming no defined clip
C7_Witness ==
    \E job_id \in Submitted :
        /\ jobs[job_id].status = "complete"
        /\ OutputFilename(job_id) \in disk
        /\ Len(final_audio[job_id]) < Len(parsed_data[job_id].sequence)

\* C8: under fair scheduling of the workers, every submitted job eventually
\* has a terminal status.
C8_EveryJobTerminates ==
    \A job_id \in UUIDs :
        (job_id \in Submitted)
            ~> (job_id \in Submitted /\ jobs[job_id].status \in Terminal)

\* a job that went through the clip loop twice and on to its last step
C8_Witness ==
    \E job_id \in Submitted :
        /\ jobs[job_id].status = "complete"
        /\ pc[job_id] = "done"
        /\ Len(parsed_data[job_id].clips) >= 2
        /\ Len(downloaded_files[job_id]) >= 2

\* C9: a status query for an identifier no submission returned is answered
\* not-found; a query for a submitted identifier is answered with that
\* job's current status and output reference, never a placeholder; and no
\* job is ever removed from the map.
C9_QueryAnswers ==
    [][/\ Submitted \subseteq DOMAIN jobs'
       /\ response'.kind = "not_found" => response'.job_id \notin DOMAIN jobs'
       /\ response'.kind = "status"
             => /\ response'.job_id \in DOMAIN jobs'
                /\ response'.status = jobs'[response'.job_id].status
                /\ response'.file_url = jobs'[response'.job_id].file_url
       /\ \A job_id \in UUIDs :
             (response'.kind \in {"status", "not_found"} /\ response'.job_id = job_id)
                 => (response'.kind = "status" <=> job_id \in Submitted)]_vars

\* a query answered with the status of a job whose worker has long finished
C9_Witness ==
    /\ response.kind = "status"
    /\ pc[response.job_id] = "done"
    /\ response.status \in Terminal
    /\ \E job_id \in UUIDs : job_id \notin Submitted

\* C10: a submission adds one job, under an identifier no existing job has,
\* with status pending and no output reference when the identifier is
\* returned, and leaves every existing job as it was.
C10_SubmissionAddsPendingJob ==
    [][response'.kind = "job"
          => /\ response'.job_id \notin Submitted
             /\ DOMAIN jobs' = Submitted \cup {response'.job_id}
             /\ jobs'[response'.job_id] = [status |-> "pending", file_url |-> NoPath]
             /\ \A job_id \in Submitted : jobs'[job_id] = jobs[job_id]]_vars

\* a second submission made while the first job is past pending
C10_Witness ==
    /\ response.kind = "job"
    /\ \E job_id \in Submitted \ {response.job_id} : jobs[job_id].status # "pending"
    /\ jobs[response.job_id].status = "pending"

-----------------------------------------------------------------------------
(* The time codec: the start strings of the clips a worker has trimmed *)

CountOf(text, c) == Cardinality({k \in 1 .. Len(text) : text[k] = c})

\* the clips of a job that went through main.py:154-158 without an exception
TrimmedIndices(job_id) == 1 .. (clip_index[job_id] - 1)

\* the worker's last call was a trim that raised
TrimRaised(job_id) ==
    /\ calls[job_id] # <<>>
    /\ calls[job_id][Len(calls[job_id])].op = "trim"
    /\ ~calls[job_id][Len(calls[job_id])].ok

\* "M:SS" or "MM:SS": one or two digits, the separator, two digits
IsMSS(text) ==
    /\ Len(text) \in {4, 5}
    /\ \A k \in 1 .. Len(text) :
          IF k = Len(text) - 2 THEN text[k] = ":" ELSE IsDigit(text[k])

MinutesOf(text) ==
    IF Len(text) = 4 THEN DigitValue(text[1])
    ELSE DigitValue(text[1]) * 10 + DigitValue(text[2])

SecondsOf(text) == DigitValue(text[Len(text) - 1]) * 10 + DigitValue(text[Len(text)])

\* C11: the time codec fails with a parsing error for every string that
\* does not contain exactly one ":" and for every string in which either
\* part is not numeric, so a clip that was trimmed has a start string with
\* exactly one separator, a digit on each side of it and digits elsewhere.
C11_MalformedTimeFails ==
    \A job_id \in Submitted : \A n \in TrimmedIndices(job_id) :
        LET time_str == parsed_data[job_id].clips[n].start
        IN  /\ CountOf(time_str, ":") = 1
            /\ time_str[1] # ":" /\ time_str[Len(time_str)] # ":"
            /\ \A k \in 1 .. Len(time_str) : time_str[k] = ":" \/ IsDigit(time_str[k])

\* C12: for every well-formed "M:SS" or "MM:SS" string the codec returns
\* minutes * 60000 + seconds * 1000 and raises nothing, whatever the length
\* of the track: the trimmed clip starts at that value, and a trim whose
\* bounds are both well formed does not raise in a job that runs alone.
C12_WellFormedTimeConverts ==
    \A job_id \in Submitted :
        /\ \A n \in TrimmedIndices(job_id) :
              LET clip_info == parsed_data[job_id].clips[n]
              IN  IsMSS(clip_info.start) =>
                    processed_clips[job_id][clip_info.name].start_ms
                        = MinutesOf(clip_info.start) * 60000
                            + SecondsOf(clip_info.start) * 1000
        /\ TrimRaised(job_id) =>
              ~(IsMSS(CurrentClip(job_id).start) /\ IsMSS(CurrentClip(job_id).end))

\* "1:30" came out as 90000 ms
C12_Witness ==
    \E job_id \in Submitted :
        /\ 1 \in TrimmedIndices(job_id)
        /\ parsed_data[job_id].clips[1].start = T_1_30
        /\ processed_clips[job_id]["a"].start_ms = 90000
        /\ jobs[job_id].status = "complete"

-----------------------------------------------------------------------------
(* The merge: the clips it is given and the length of what it returns *)

\* the worker of the job is past main.py:172
MergeDone(job_id) ==
    /\ "clips" \in DOMAIN parsed_data[job_id]
    /\ "sequence" \in DOMAIN parsed_data[job_id]
    /\ clip_index[job_id] > Len(parsed_data[job_id].clips)
    /\ pc[job_id] \in {"complete", "file_url", "cleanup", "done"}

\* the trimmed clips the entries of the sequence name, entry by entry
NamedClips(job_id) ==
    LET IsDefined(name) == name \in DOMAIN processed_clips[job_id]
        named == SelectSeq(parsed_data[job_id].sequence, IsDefined)
    IN  [n \in 1 .. Len(named) |-> processed_clips[job_id][named[n]]]

RECURSIVE SumOfLengths(_)
SumOfLengths(clips) ==
    IF clips = <<>> THEN 0 ELSE ClipLength(Head(clips)) + SumOfLengths(Tail(clips))

HasShortClip(clips) ==
    \E n \in 1 .. Len(clips) : ClipLength(clips[n]) < CROSSFADE_DURATION_MS

-----------------------------------------------------------------------------
(* Jobs that run side by side *)

Removed(job_id, song_name) ==
    \E n \in 1 .. Len(calls[job_id]) :
        calls[job_id][n] = [op |-> "remove", arg |-> song_name, ok |-> TRUE]

\* C14: two jobs that fetch the same song hold the same source file name;
\* the cleanup of a job removes its files whatever the other jobs are doing
\* (the file goes, or os.remove raised); and a trim that finds its source
\* file gone, which only the cleanup of another job brings about, fails the
\* job. The interleaving in which this happens to a job whose own calls all
\* succeeded is the witness.
C14_SharedSourceFileRace ==
    [][\A job_id \in Submitted :
          /\ \A other \in Submitted : \A song_name \in Songs :
                (/\ song_name \in DOMAIN downloaded_songs[job_id]
                 /\ song_name \in DOMAIN downloaded_songs[other])
                    => downloaded_songs[job_id][song_name]
                          = downloaded_songs[other][song_name]
          /\ (/\ pc[job_id] = "cleanup"
              /\ cleanup_index'[job_id] = cleanup_index[job_id] + 1
              /\ downloaded_files[job_id][cleanup_index[job_id]] \in disk)
                => \/ downloaded_files[job_id][cleanup_index[job_id]] \notin disk'
                   \/ /\ Len(calls'[job_id]) = Len(calls[job_id]) + 1
                      /\ calls'[job_id][Len(calls'[job_id])].op = "remove"
                      /\ ~calls'[job_id][Len(calls'[job_id])].ok
          /\ (/\ pc[job_id] = "trim"
              /\ pc'[job_id] # "trim"
              /\ audio_file_path[job_id] \notin disk)
                => /\ jobs'[job_id].status = "failed"
                   /\ \E other \in Submitted \ {job_id} :
                         Removed(other, audio_file_path[job_id].song)]_vars

\* a job that failed at the trim of a well-formed clip after its search and
\* its download succeeded, the file having been removed by a job that is
\* complete
C14_Witness ==
    \E job_id \in Submitted : \E other \in Submitted \ {job_id} :
        /\ jobs[job_id].status = "failed"
        /\ TrimRaised(job_id)
        /\ \A n \in 1 .. (Len(calls[job_id]) - 1) : calls[job_id][n].ok
        /\ CallCount(job_id, "download", CurrentClip(job_id).song_name) = 1
        /\ IsMSS(CurrentClip(job_id).start) /\ IsMSS(CurrentClip(job_id).end)
        /\ jobs[other].status = "complete"
        /\ Removed(other, CurrentClip(job_id).song_name)
        /\ downloaded_songs[other][CurrentClip(job_id).song_name] = audio_file_path[job_id]

\* C15: a step of the worker of one job changes no entry of the job map but
\* that job's own, and adds or drops none; a status query changes no entry.
C15_WorkerWritesOwnEntryOnly ==
    [][/\ \A job_id \in Submitted :
             (\/ pc'[job_id] # pc[job_id]
              \/ cleanup_index'[job_id] # cleanup_index[job_id])
                => /\ DOMAIN jobs' = DOMAIN jobs
                   /\ \A other \in Submitted \ {job_id} : jobs'[other] = jobs[other]
       /\ response'.kind \in {"status", "not_found"} => jobs' = jobs]_vars

\* a worker has just stepped while two jobs are under way in different stages
C15_Witness ==
    /\ response = NoResponse
    /\ \E job_id \in Submitted : \E other \in Submitted \ {job_id} :
          /\ pc[job_id] \notin {"start", "done"}
          /\ pc[other] \notin {"start", "done"}
          /\ jobs[job_id].status = "processing_audio"
          /\ jobs[other].status = "parsing_prompt"

-----------------------------------------------------------------------------
(* The assembled track *)

\* the positions of the sequence that name a defined clip
DefinedEntries(job_id) ==
    {p \in 1 .. Len(parsed_data[job_id].sequence) :
        parsed_data[job_id].sequence[p] \in DOMAIN processed_clips[job_id]}

\* the n-th of them
DefinedEntry(job_id, n) ==
    CHOOSE p \in DefinedEntries(job_id) :
        Cardinality({q \in DefinedEntries(job_id) : q <= p}) = n

\* C16: the assembled track of a completed job has one part for each entry
\* of the sequence that names a defined clip, the n-th part being the clip
\* of the n-th such entry, repeats included; a defined clip the sequence
\* never names is no part of the track, yet its song was searched and
\* downloaded once.
C16_TrackFollowsSequence ==
    \A job_id \in Submitted :
        jobs[job_id].status = "complete"
            => LET sequence == parsed_data[job_id].sequence
                   clips == parsed_data[job_id].clips
               IN  /\ Len(final_audio[job_id]) = Cardinality(DefinedEntries(job_id))
                   /\ \A n \in 1 .. Len(final_audio[job_id]) :
                         final_audio[job_id][n]
                            = processed_clips[job_id][sequence[DefinedEntry(job_id, n)]]
                   /\ \A n \in 1 .. Len(clips) :
                         /\ clips[n].name \in DOMAIN processed_clips[job_id]
                         /\ CallCount(job_id, "search", clips[n].song_name) = 1
                         /\ CallCount(job_id, "download", clips[n].song_name) = 1
                         /\ clips[n].name \notin Range(sequence)
                               => processed_clips[job_id][clips[n].name]
                                     \notin Range(final_audio[job_id])

\* a completed job whose sequence names one clip twice and never names the
\* other, the only clip of its song
C16_Witness ==
    \E job_id \in Submitted :
        /\ jobs[job_id].status = "complete"
        /\ Len(parsed_data[job_id].sequence) = 2
        /\ Len(final_audio[job_id]) = 2
        /\ final_audio[job_id][1] = final_audio[job_id][2]
        /\ \E n \in 1 .. Len(parsed_data[job_id].clips) :
              LET clip_info == parsed_data[job_id].clips[n]
              IN  /\ clip_info.name \notin Range(parsed_data[job_id].sequence)
                  /\ final_audio[job_id][1].song # SourcePath(clip_info.song_name).song
                  /\ CallCount(job_id, "download", clip_info.song_name) = 1

-----------------------------------------------------------------------------
\* C17: a job whose status is complete or failed keeps that status in every
\* later step, and a file_url that has been set is never changed or cleared;
\* no job leaves the job map.
C17_TerminalStatusAbsorbing ==
    [][\A job_id \in Submitted :
          /\ job_id \in DOMAIN jobs'
          /\ jobs[job_id].status \in Terminal
                => jobs'[job_id].status = jobs[job_id].status
          /\ jobs[job_id].file_url # NoPath
                => jobs'[job_id].file_url = jobs[job_id].file_url]_vars

\* a job that is complete with its reference, queried after its worker ended
\* and while the other job has failed
C17_Witness ==
    \E job_id \in Submitted : \E other \in Submitted \ {job_id} :
        /\ pc[job_id] = "done"
        /\ jobs[job_id] = [status |-> "complete", file_url |-> FileUrl(job_id)]
        /\ jobs[other].status = "failed"
        /\ response = [kind |-> "status", job_id |-> job_id,
                       status |-> "complete", file_url |-> FileUrl(job_id)]

-----------------------------------------------------------------------------
(* Clips of one name *)

\* the last clip of the plan that bears the name
LastDefinition(job_id, name) ==
    LET clips == parsed_data[job_id].clips
        last == CHOOSE n \in 1 .. Len(clips) :
                    /\ clips[n].name = name
                    /\ \A m \in (n + 1) .. Len(clips) : clips[m].name # name
    IN  clips[last]

\* what the trim of a clip with well-formed bounds keeps
TrimOf(clip_info) ==
    [song |-> clip_info.song_name,
     start_ms |-> MinutesOf(clip_info.start) * 60000 + SecondsOf(clip_info.start) * 1000,
     end_ms |-> MinutesOf(clip_info.end) * 60000 + SecondsOf(clip_info.end) * 1000]

\* C18: once the clip loop is through, each clip name stands for the last
\* clip of the plan that bears it, song and bounds, and so does every part
\* of the assembled track; the song of every definition, replaced or not,
\* was searched and downloaded once, and when the worker has ended each of
\* their files is gone or its removal raised.
C18_LastDefinitionWins ==
    \A job_id \in Submitted :
        ( /\ "clips" \in DOMAIN parsed_data[job_id]
          /\ clip_index[job_id] > Len(parsed_data[job_id].clips) )
            => LET clips == parsed_data[job_id].clips
               IN  /\ \A n \in 1 .. Len(clips) :
                         /\ processed_clips[job_id][clips[n].name]
                               = TrimOf(LastDefinition(job_id, clips[n].name))
                         /\ CallCount(job_id, "search", clips[n].song_name) = 1
                         /\ CallCount(job_id, "download", clips[n].song_name) = 1
                         /\ pc[job_id] = "done"
                               => \/ SourcePath(clips[n].song_name) \notin disk
                                  \/ RemoveFailed(job_id, SourcePath(clips[n].song_name))
                   /\ \A n \in 1 .. Len(final_audio[job_id]) :
                         final_audio[job_id][n]
                            = TrimOf(LastDefinition(job_id,
                                  parsed_data[job_id].sequence[DefinedEntry(job_id, n)]))

\* a completed job with two clips of one name from two songs: the track is
\* cut from the second, and both source files have been removed
C18_Witness ==
    \E job_id \in Submitted :
        /\ jobs[job_id].status = "complete"
        /\ pc[job_id] = "done"
        /\ Len(parsed_data[job_id].clips) = 2
        /\ parsed_data[job_id].clips[1].name = parsed_data[job_id].clips[2].name
        /\ parsed_data[job_id].clips[1].song_name # parsed_data[job_id].clips[2].song_name
        /\ final_audio[job_id][1] = TrimOf(parsed_data[job_id].clips[2])
        /\ \A n \in 1 .. 2 :
              /\ CallCount(job_id, "download", parsed_data[job_id].clips[n].song_name) = 1
              /\ SourcePath(parsed_data[job_id].clips[n].song_name) \notin disk

====
